---- MODULE Spec2Model ----
(***************************************************************************)
(* A model of game.py: the process-wide Game state (deck, per-player       *)
(* visible states, hands, stacks, score, penalty), the Card objects with   *)
(* their belief masks and sibling snapshots, and the operations that       *)
(* mutate them.  Every operation is one action; a call that raises leaves  *)
(* the name of the exception in `result`, with whatever the handler had    *)
(* already written before raising.                                         *)
(***************************************************************************)
EXTENDS Integers, Sequences, FiniteSets, TLC

VARIABLES deck, states, players, cards, stacks, score, penalty, result

vars == <<deck, states, players, cards, stacks, score, penalty, result>>

(***************************************************************************)
(* Program constants.                                                      *)
(***************************************************************************)
GRID == 5                       \* INIT_ARRAY is 5 x 5
UNK == 5                        \* Card.UNK
INFO_HIGH == 4                  \* the upper limit Information.__init__ checks
MAIN_PLAYERS == 2               \* the players __main__ adds
MAIN_CARDS == 3                 \* the cards __main__ deals first, all of one identity
UNPACK_NAMES == 2               \* the names most_likely unpacks probabilities() into
Idx == 0 .. (GRID - 1)

INIT_ROW == <<3, 2, 2, 2, 1>>
INIT_ARRAY == [c \in Idx |-> [v \in Idx |-> INIT_ROW[v + 1]]]

(***************************************************************************)
(* Bounds of the model.                                                    *)
(***************************************************************************)
MaxPlayers == 2                 \* add_player calls
MaxSetup == 4                   \* add_player and successful deal_card calls under Spec
MaxInfoCards == 3               \* cards dealt under SpecInfo
MaxPlayDeals == 5               \* successful deal_card calls under SpecPlay

CardColors == {0}               \* colors of the cards dealt under Spec
CardValues == {0, 4}            \* values of the cards dealt under Spec
SpecStarts == {FALSE}           \* game_start of the deals under Spec
SpecTargets == {<<>>}           \* target lists of the clues given under Spec
InfoKinds == {<<0, 0>>, <<1, 1>>}   \* identities dealt under SpecInfo
InfoTargets == {<<>>, <<0>>, <<1>>, <<0, 1>>}
ClueData == {0}                 \* indices named by the clues under SpecInfo

\* The deals under SpecBelief, in order: <<color, value, hand, game_start>>.
BeliefDeals ==
    << <<4, 4, 1, TRUE>>, <<1, 4, 0, TRUE>>, <<2, 4, 0, TRUE>>,
       <<3, 4, 0, TRUE>>, <<0, 4, 0, FALSE>> >>
\* The values the hand of player 0 is told it does not hold under SpecBelief.
BeliefValues == {0, 1, 2, 3}
\* The clues put on single cards under SpecBelief: <<card, color, negative>>.
BeliefColors ==
    {<<2, 2, TRUE>>, <<2, 3, TRUE>>, <<3, 1, TRUE>>, <<3, 3, TRUE>>,
     <<4, 1, TRUE>>, <<4, 2, TRUE>>, <<5, 0, FALSE>>}

ClueTypes == {"color", "value", "shape"}    \* info_type passed under SpecClue
ClueIndexes == {-1, 0, 1, 3, 4, 5}          \* data passed under SpecClue

(***************************************************************************)
(* utils.check_isin(x, (low, high)): low <= x < high.                      *)
(***************************************************************************)
check_isin(x, low, high) == low <= x /\ x < high

(***************************************************************************)
(* utils.make_iterable: a list stays as it is (the callers modelled here   *)
(* pass lists of indices).                                                 *)
(***************************************************************************)
make_iterable(card_index) ==
    IF DOMAIN card_index = 1 .. Len(card_index) THEN card_index
    ELSE <<card_index>>

(***************************************************************************)
(* class Information                                                       *)
(***************************************************************************)
InformationRaises(info_type, data) ==
    \/ ~check_isin(data, 0, INFO_HIGH)
    \/ info_type \notin {"color", "value"}

Information(info_type, data, negative) ==
    [type |-> info_type,
     is_color |-> (info_type = "color"),
     is_value |-> (info_type = "value"),
     data |-> data,
     negative |-> negative]

negate(info) == Information(info.type, info.data, ~info.negative)

\* The clues a caller can construct and pass.
CluesOf(types) ==
    {Information(x[1], x[2], x[3]) :
        x \in {y \in types \X ClueData \X BOOLEAN :
                  ~InformationRaises(y[1], y[2])}}
Clues == CluesOf({"color", "value"})
HandClues == CluesOf({"color"})

\* The one clue given under Spec.
SpecClues == {Information("color", 1, FALSE)}

(***************************************************************************)
(* class Card                                                              *)
(***************************************************************************)
ONES == [c \in Idx |-> [v \in Idx |-> TRUE]]

Card(color, value, hand_id) ==
    [cards_in_hand |-> <<>>,
     player_id |-> hand_id,
     color |-> color,
     value |-> value,
     played |-> FALSE,
     states |-> ONES]

\* Card.add_information on the mask: rows (colors) or columns (values) to 0.
CardAddInformation_overwrite(mask, info) ==
    [c \in Idx |-> [v \in Idx |->
        LET x == IF info.is_color THEN c ELSE v
        IN  IF info.negative THEN mask[c][v] /\ x # info.data
            ELSE x = info.data]]

CardAddInformation_slice(mask, info) ==
    [c \in Idx |-> [v \in Idx |->
        LET x == IF info.is_color THEN c ELSE v
        IN  IF info.negative THEN mask[c][v] /\ x # info.data
            ELSE mask[c][v] /\ ~(x < info.data + 1 \/ x >= info.data + 1)]]

CardAddInformation(mask, info) ==
    IF info.is_color
    THEN IF info.negative
         THEN [c \in Idx |-> [v \in Idx |->
                  IF c = info.data THEN FALSE ELSE mask[c][v]]]
         ELSE [c \in Idx |-> [v \in Idx |->
                  IF c < info.data \/ c >= info.data + 1
                  THEN FALSE ELSE mask[c][v]]]
    ELSE IF info.negative
         THEN [c \in Idx |-> [v \in Idx |->
                  IF v = info.data THEN FALSE ELSE mask[c][v]]]
         ELSE [c \in Idx |-> [v \in Idx |->
                  IF v < info.data \/ v >= info.data + 1
                  THEN FALSE ELSE mask[c][v]]]

(***************************************************************************)
(* class Hand                                                              *)
(***************************************************************************)
Hand(player_id) == [id |-> player_id, cards |-> <<>>]

InList(k, list) == \E i \in 1 .. Len(list) : list[i] = k

\* list.remove(x): drops the first occurrence.
ListRemove(list, k) ==
    LET first == CHOOSE i \in 1 .. Len(list) :
                    list[i] = k /\ \A j \in 1 .. (i - 1) : list[j] # k
    IN  [i \in 1 .. (Len(list) - 1) |->
            IF i < first THEN list[i] ELSE list[i + 1]]

\* Hand.add_card: the siblings recorded on the card.
AddCardSiblings(card, hand_cards, game_start) ==
    IF game_start THEN card.cards_in_hand
    ELSE card.cards_in_hand \o hand_cards

(***************************************************************************)
(* The number of cards dealt so far: what is missing from the deck.        *)
(***************************************************************************)
RECURSIVE SumTo(_, _)
SumTo(f, n) == IF n < 0 THEN 0 ELSE f[n] + SumTo(f, n - 1)
MatrixSum(m) == SumTo([c \in Idx |-> SumTo(m[c], GRID - 1)], GRID - 1)
Dealt == MatrixSum(INIT_ARRAY) - MatrixSum(deck)
SetUp == Len(players) + Dealt

(***************************************************************************)
(* Initial state: the class attributes of Game.                            *)
(***************************************************************************)
Init ==
    /\ deck = INIT_ARRAY
    /\ states = <<>>
    /\ players = <<>>
    /\ cards = <<>>
    /\ stacks = [c \in Idx |-> 0]
    /\ score = 0
    /\ penalty = 0
    /\ result = "ok"

(***************************************************************************)
(* Game.add_player                                                         *)
(***************************************************************************)
add_player ==
    /\ players' = Append(players, Hand(Len(players)))
    /\ states' = Append(states, INIT_ARRAY)
    /\ result' = "ok"
    /\ UNCHANGED <<deck, cards, stacks, score, penalty>>

(***************************************************************************)
(* Game.deal_card                                                          *)
(***************************************************************************)
\* Game.deck[card.color, card.value] -= 1
TakeFromDeck_swapped(d, color, value) == [d EXCEPT ![value][color] = @ - 1]

TakeFromDeck(d, color, value) == [d EXCEPT ![color][value] = @ - 1]

\* The loop that makes the other players aware of the card.
OthersAware_owner_too(sts, player_id, color, value) ==
    [i \in 1 .. Len(sts) |-> [sts[i] EXCEPT ![color][value] = @ - 1]]

OthersAware(sts, player_id, color, value) ==
    [i \in 1 .. Len(sts) |->
        IF (i - 1) # player_id
        THEN [sts[i] EXCEPT ![color][value] = @ - 1]
        ELSE sts[i]]

deal_card(cs, k, game_start) ==
    LET card == cs[k]
        player_id == card.player_id
    IN
    /\ IF ~check_isin(player_id, 0, Len(players))
       THEN /\ result' = "ValueError: check_isin"
            /\ UNCHANGED <<deck, states, players, cards>>
       ELSE IF deck[card.color][card.value] = 0
       THEN /\ result' = "ValueError: not part of the deck"
            /\ UNCHANGED <<deck, states, players, cards>>
       ELSE /\ deck' = TakeFromDeck(deck, card.color, card.value)
            /\ states' = OthersAware(states, player_id, card.color, card.value)
            /\ cards' = [cs EXCEPT ![k].cards_in_hand =
                            AddCardSiblings(card, players[player_id + 1].cards,
                                            game_start)]
            /\ players' = [players EXCEPT ![player_id + 1].cards = Append(@, k)]
            /\ result' = "ok"
    /\ UNCHANGED <<stacks, score, penalty>>

\* Game.deal_card(Card(color, value, hand), game_start)
deal_new(color, value, hand_id, game_start) ==
    IF check_isin(color, 0, UNK) /\ check_isin(value, 0, UNK)
    THEN deal_card(Append(cards, Card(color, value, hand_id)),
                   Len(cards) + 1, game_start)
    ELSE /\ result' = "ValueError: check_isin"
         /\ UNCHANGED <<deck, states, players, cards, stacks, score, penalty>>

\* Game.deal_card(card, game_start) with a Card dealt before
deal_again(k, game_start) ==
    /\ k \in 1 .. Len(cards)
    /\ deal_card(cards, k, game_start)

(***************************************************************************)
(* Game.play_card                                                          *)
(***************************************************************************)
\* The check of the stacks: <<stacks, score, penalty>> after the play.
CheckStacks_one_based(stk, sc, pen, color, value) ==
    IF stk[color] = value + 1
    THEN <<[stk EXCEPT ![color] = @ + 1], sc + 1, pen>>
    ELSE <<stk, sc, pen + 1>>

CheckStacks_no_score(stk, sc, pen, color, value) ==
    IF stk[color] = value
    THEN <<[stk EXCEPT ![color] = @ + 1], sc, pen>>
    ELSE <<stk, sc, pen + 1>>

CheckStacks(stk, sc, pen, color, value) ==
    IF stk[color] = value
    THEN <<[stk EXCEPT ![color] = @ + 1], sc + 1, pen>>
    ELSE <<stk, sc, pen + 1>>

\* Game.states[player_id][card.color, card.value] -= 1
OwnerSees_everyone(sts, player_id, color, value) ==
    [i \in 1 .. Len(sts) |-> [sts[i] EXCEPT ![color][value] = @ - 1]]

OwnerSees(sts, player_id, color, value) ==
    [sts EXCEPT ![player_id + 1][color][value] = @ - 1]

play_card(player_id, k) ==
    LET card == cards[k]
        after == CheckStacks(stacks, score, penalty, card.color, card.value)
    IN
    /\ k \in 1 .. Len(cards)
    /\ IF ~check_isin(player_id, 0, Len(players))
       THEN /\ result' = "ValueError: check_isin"
            /\ UNCHANGED <<deck, states, players, cards, stacks, score, penalty>>
       ELSE /\ cards' = [cards EXCEPT ![k].played = TRUE]
            /\ IF ~InList(k, players[player_id + 1].cards)
               THEN /\ result' = "ValueError: list.remove"
                    /\ UNCHANGED <<deck, states, players, stacks, score, penalty>>
               ELSE /\ players' = [players EXCEPT ![player_id + 1].cards =
                                       ListRemove(@, k)]
                    /\ states' = OwnerSees(states, player_id, card.color, card.value)
                    /\ stacks' = after[1]
                    /\ score' = after[2]
                    /\ penalty' = after[3]
                    /\ result' = "ok"
                    /\ UNCHANGED deck

(***************************************************************************)
(* Hand.add_information and Game.give_information                          *)
(***************************************************************************)
RECURSIVE TargetLoop(_, _, _, _, _)
\* for idx in card_index: the clue on each target, from position n on.
TargetLoop(cs, hand_cards, card_index, n, info) ==
    IF n > Len(card_index) THEN [cards |-> cs, raised |-> "ok"]
    ELSE LET idx == card_index[n] IN
         IF ~(idx < Len(hand_cards))
         THEN [cards |-> cs, raised |-> "IndexError"]
         ELSE IF cs[hand_cards[idx + 1]].played
         THEN [cards |-> cs, raised |-> "ValueError: already been played"]
         ELSE TargetLoop(
                 [cs EXCEPT ![hand_cards[idx + 1]].states =
                     CardAddInformation(@, info)],
                 hand_cards, card_index, n + 1, info)

\* `i not in card_index and not card.played`
GetsNegation_every_card(cs, hand_cards, card_index, i) ==
    ~cs[hand_cards[i + 1]].played

GetsNegation(cs, hand_cards, card_index, i) ==
    /\ ~InList(i, card_index)
    /\ ~cs[hand_cards[i + 1]].played

RECURSIVE OthersLoop(_, _, _, _, _)
\* for i, card in enumerate(self.cards): the negated clue on the others.
OthersLoop(cs, hand_cards, card_index, i, info) ==
    IF i >= Len(hand_cards) THEN cs
    ELSE OthersLoop(
            IF GetsNegation(cs, hand_cards, card_index, i)
            THEN [cs EXCEPT ![hand_cards[i + 1]].states =
                     CardAddInformation(@, negate(info))]
            ELSE cs,
            hand_cards, card_index, i + 1, info)

HandAddInformation(cs, hand_cards, card_index, info) ==
    LET lst == make_iterable(card_index)
        first == TargetLoop(cs, hand_cards, lst, 1, info)
    IN  IF first.raised # "ok" THEN first
        ELSE [cards |-> OthersLoop(first.cards, hand_cards, lst, 0, info),
              raised |-> "ok"]

\* What give_information leaves behind: the cards and the exception raised.
GiveInformationResult(player_id, card_index, info) ==
    IF ~(player_id < Len(players))
    THEN [cards |-> cards, raised |-> "IndexError"]
    ELSE HandAddInformation(cards, players[player_id + 1].cards,
                            card_index, info)

give_information(player_id, card_index, info) ==
    /\ UNCHANGED <<deck, states, players, stacks, score, penalty>>
    /\ LET r == GiveInformationResult(player_id, card_index, info)
       IN  /\ cards' = r.cards
           /\ result' = r.raised

(***************************************************************************)
(* Card.add_information called on a Card object directly.                  *)
(***************************************************************************)
card_add_information(k, info) ==
    /\ k \in 1 .. Len(cards)
    /\ cards' = [cards EXCEPT ![k].states = CardAddInformation(@, info)]
    /\ result' = "ok"
    /\ UNCHANGED <<deck, states, players, stacks, score, penalty>>

\* card.add_information(Information(info_type, data, negative)): the
\* constructor runs first and raises before the card is touched.
InformationResult(info_type, data) ==
    IF ~check_isin(data, 0, INFO_HIGH) THEN "ValueError: check_isin"
    ELSE IF info_type \notin {"color", "value"} THEN "ValueError: Type of information"
    ELSE "ok"

clue_new(k, info_type, data, negative) ==
    /\ k \in 1 .. Len(cards)
    /\ IF InformationResult(info_type, data) # "ok"
       THEN /\ result' = InformationResult(info_type, data)
            /\ UNCHANGED <<deck, states, players, cards, stacks, score, penalty>>
       ELSE card_add_information(k, Information(info_type, data, negative))

(***************************************************************************)
(* utils.FractionMatrix: a matrix of numerators over one denominator.      *)
(***************************************************************************)
RECURSIVE GCD(_, _)
GCD(a, b) == IF b = 0 THEN (IF a < 0 THEN -a ELSE a) ELSE GCD(b, a % b)

Abs(x) == IF x < 0 THEN -x ELSE x

MatrixGCD(m) ==
    LET rowgcd == [c \in Idx |->
                     GCD(GCD(GCD(GCD(Abs(m[c][0]), Abs(m[c][1])), Abs(m[c][2])),
                             Abs(m[c][3])), Abs(m[c][4]))]
    IN  GCD(GCD(GCD(GCD(rowgcd[0], rowgcd[1]), rowgcd[2]), rowgcd[3]), rowgcd[4])

\* array.view(FractionMatrix): whole counts
FractionMatrix(m) == [num |-> m, den |-> 1]

\* a - b, elementwise
FractionSub(a, b) ==
    [num |-> [c \in Idx |-> [v \in Idx |->
                a.num[c][v] * b.den - b.num[c][v] * a.den]],
     den |-> a.den * b.den]

\* mask * a, elementwise
FractionMask(mask, a) ==
    [num |-> [c \in Idx |-> [v \in Idx |->
                IF mask[c][v] THEN a.num[c][v] ELSE 0]],
     den |-> a.den]

\* make_proba: the sum of the entries becomes the denominator
make_proba(a) ==
    LET g == MatrixGCD(a.num)
        total == MatrixSum(a.num)
    IN  IF g = 0 THEN [num |-> a.num, den |-> 0]
        ELSE [num |-> [c \in Idx |-> [v \in Idx |-> a.num[c][v] \div g]],
              den |-> total \div g]

(***************************************************************************)
(* Card.probabilities, Card.determined, Card.well_predicted                *)
(***************************************************************************)
None == [given |-> FALSE]

RECURSIVE probabilities(_, _)
RECURSIVE SubSiblings(_, _, _, _)

\* for card in self.cards_in_hand: from sibling n on
SubSiblings(matrix, siblings, n, player_state) ==
    IF n > Len(siblings) THEN matrix
    ELSE SubSiblings(
            IF ~cards[siblings[n]].played
            THEN FractionSub(matrix, probabilities(siblings[n], player_state))
            ELSE matrix,
            siblings, n + 1, player_state)

probabilities_unmasked(k, player_state) ==
    LET start == IF player_state.given
                 THEN FractionMatrix(player_state.matrix)
                 ELSE FractionMatrix(states[cards[k].player_id + 1])
        minus == SubSiblings(start, cards[k].cards_in_hand, 1, player_state)
    IN  make_proba(minus)

\* the matrix before make_proba: counts less the siblings, times the mask
probability_matrix(k, player_state) ==
    LET start == IF player_state.given
                 THEN FractionMatrix(player_state.matrix)
                 ELSE FractionMatrix(states[cards[k].player_id + 1])
        minus == SubSiblings(start, cards[k].cards_in_hand, 1, player_state)
    IN  FractionMask(cards[k].states, minus)

probabilities(k, player_state) == make_proba(probability_matrix(k, player_state))

n_possible(k) ==
    LET p == probabilities(k, None)
    IN  Cardinality({x \in Idx \X Idx : p.num[x[1]][x[2]] # 0})

\* the assertion of determined() holds
determined_asserts(k) == n_possible(k) # 0

determined(k) == n_possible(k) = 1

\* np.argwhere(self.states == 1)[0]: the first true cell, rows first
index_predicted(k) ==
    CHOOSE x \in Idx \X Idx :
        /\ cards[k].states[x[1]][x[2]]
        /\ \A y \in Idx \X Idx :
              cards[k].states[y[1]][y[2]] =>
                 (x[1] < y[1] \/ (x[1] = y[1] /\ x[2] <= y[2]))

well_predicted(k) ==
    IF determined(k)
    THEN index_predicted(k)[1] = cards[k].color
         /\ index_predicted(k)[2] = cards[k].value
    ELSE FALSE

\* Card.most_likely: `probabilities, total = self.probabilities()` unpacks
\* the rows of the matrix probabilities() returns into two names.
most_likely(k, return_proba) ==
    /\ k \in 1 .. Len(cards)
    /\ result' = IF GRID # UNPACK_NAMES
                 THEN "ValueError: too many values to unpack"
                 ELSE "ok"
    /\ UNCHANGED <<deck, states, players, cards, stacks, score, penalty>>

(***************************************************************************)
(* The inputs and the specification of the whole interface of Game.        *)
(***************************************************************************)
PlayerIds == 0 .. (MaxPlayers - 1)
CardRefs == 1 .. Len(cards)

Next ==
    \/ Len(players) < MaxPlayers /\ SetUp < MaxSetup /\ add_player
    \/ /\ SetUp < MaxSetup
       /\ \E c \in CardColors, v \in CardValues, h \in PlayerIds, g \in SpecStarts :
             deal_new(c, v, h, g)
    \/ /\ SetUp < MaxSetup
       /\ \E k \in CardRefs, g \in SpecStarts : deal_again(k, g)
    \/ \E p \in PlayerIds, k \in CardRefs : play_card(p, k)
    \/ \E p \in PlayerIds, t \in SpecTargets, i \in SpecClues :
          give_information(p, t, i)

Spec == Init /\ [][Next]_vars

(***************************************************************************)
(* The clue operations on dealt hands: the players join, the cards are     *)
(* dealt two to a player, then the first card is played by any player,     *)
(* clues are given to the hands and clues are put on the first card, in    *)
(* any order.                                                              *)
(***************************************************************************)
NoClueYet == \A k \in CardRefs : cards[k].states = ONES

InfoNext ==
    \/ Len(players) < MaxPlayers /\ add_player
    \/ /\ Len(cards) < MaxInfoCards
       /\ Len(players) = MaxPlayers
       /\ NoClueYet
       /\ \E kind \in InfoKinds :
             deal_new(kind[1], kind[2], Len(cards) \div 2, FALSE)
    \/ \E p \in PlayerIds : play_card(p, 1)
    \/ \E p \in PlayerIds, t \in InfoTargets, i \in HandClues :
          give_information(p, t, i)
    \/ \E i \in Clues : card_add_information(1, i)

SpecInfo == Init /\ [][InfoNext]_vars

(***************************************************************************)
(* Dealing alone, until the deck runs out of the identities dealt.         *)
(***************************************************************************)
DealNext ==
    \/ Len(players) < MaxPlayers /\ add_player
    \/ \E c \in CardColors, v \in CardValues, h \in PlayerIds, g \in BOOLEAN :
          deal_new(c, v, h, g)
    \/ \E k \in CardRefs, g \in BOOLEAN : deal_again(k, g)

SpecDeal == Init /\ [][DealNext]_vars

(***************************************************************************)
(* The script under __main__: two players, three cards of one identity     *)
(* dealt to one player, a card dealt to the other player, an affirmed      *)
(* color and an affirmed value clue on each of the three, one more card.   *)
(* The clues land in any order.                                            *)
(***************************************************************************)
MainNext ==
    \/ Len(players) < MAIN_PLAYERS /\ add_player
    \/ /\ Len(players) = MAIN_PLAYERS
       /\ Len(cards) < MAIN_CARDS
       /\ \E h \in 0 .. (MAIN_PLAYERS - 1) :
             /\ cards # <<>> => h = cards[1].player_id
             /\ deal_new(0, 0, h, FALSE)
    \/ /\ Len(cards) = MAIN_CARDS
       /\ deal_new(4, 4, 1 - cards[1].player_id, FALSE)
    \/ /\ Len(cards) >= MAIN_CARDS
       /\ \E k \in 1 .. MAIN_CARDS :
             \/ card_add_information(k, Information("color", cards[k].color, FALSE))
             \/ card_add_information(k, Information("value", cards[k].value, FALSE))
    \/ /\ Len(cards) = MAIN_CARDS + 1
       /\ deal_new(0, 1, cards[1].player_id, FALSE)

SpecMain == Init /\ [][MainNext]_vars

(***************************************************************************)
(* Clues constructed from any arguments and put on one dealt card.         *)
(***************************************************************************)
ClueNext ==
    \/ Len(players) < MaxPlayers /\ add_player
    \/ cards = <<>> /\ deal_new(0, 0, 0, FALSE)
    \/ \E t \in ClueTypes, d \in ClueIndexes, n \in BOOLEAN : clue_new(1, t, d, n)

SpecClue == Init /\ [][ClueNext]_vars

(***************************************************************************)
(* Playing a color: the players join, then cards of color 0 are dealt to   *)
(* player 0, one held at a time, and the last card dealt is played by any  *)
(* player.                                                                 *)
(***************************************************************************)
PlayNext ==
    \/ Len(players) < MaxPlayers /\ cards = <<>> /\ add_player
    \/ /\ Dealt < MaxPlayDeals
       /\ players # <<>>
       /\ players[1].cards = <<>>
       /\ \E v \in Idx : deal_new(0, v, 0, TRUE)
    \/ \E p \in PlayerIds : play_card(p, Len(cards))

SpecPlay == Init /\ [][PlayNext]_vars

(***************************************************************************)
(* Beliefs in correct use: the players join, a card goes to player 1 and   *)
(* an initial hand of three and then a fourth card to player 0, each Card  *)
(* object dealt once; then, in any order, truthful clues are given to the  *)
(* hand of player 0 and put on its cards, player 0 plays the last card     *)
(* dealt, and most_likely is asked of a card.                              *)
(***************************************************************************)
AllDealt == Len(cards) = Len(BeliefDeals)

BeliefNext ==
    \/ Len(players) < MaxPlayers /\ cards = <<>> /\ add_player
    \/ /\ Len(players) = MaxPlayers
       /\ Len(cards) < Len(BeliefDeals)
       /\ LET d == BeliefDeals[Len(cards) + 1]
          IN  deal_new(d[1], d[2], d[3], d[4])
    \/ /\ AllDealt
       /\ \E v \in BeliefValues :
             give_information(0, <<>>, Information("value", v, FALSE))
    \/ /\ AllDealt
       /\ \E c \in BeliefColors :
             card_add_information(c[1], Information("color", c[2], c[3]))
    \/ /\ AllDealt
       /\ ~cards[Len(cards)].played
       /\ play_card(0, Len(cards))
    \/ /\ AllDealt
       /\ \E k \in CardRefs, r \in BOOLEAN : most_likely(k, r)

SpecBelief == Init /\ [][BeliefNext]_vars

(***************************************************************************)
(* Vocabulary of the properties.                                           *)
(***************************************************************************)
Cells == Idx \X Idx
Others == <<deck, states, players, stacks, score, penalty>>

\* the least count the players see at a cell
MinOverPlayers(c, v) ==
    CHOOSE m \in {states[p][c][v] : p \in 1 .. Len(states)} :
        \A p \in 1 .. Len(states) : m <= states[p][c][v]

\* the hand entries, over all hands, that hold a card of identity (c, v)
RECURSIVE CountIn(_, _, _, _)
CountIn(hand_cards, n, c, v) ==
    IF n > Len(hand_cards) THEN 0
    ELSE (IF cards[hand_cards[n]].color = c /\ cards[hand_cards[n]].value = v
          THEN 1 ELSE 0) + CountIn(hand_cards, n + 1, c, v)

RECURSIVE InHands(_, _, _)
InHands(p, c, v) ==
    IF p > Len(players) THEN 0
    ELSE CountIn(players[p].cards, 1, c, v) + InHands(p + 1, c, v)

\* what a clue says of identity (c, v)
Agrees(info, c, v) ==
    LET x == IF info.is_color THEN c ELSE v
    IN  IF info.negative THEN x # info.data ELSE x = info.data

OnlyCell(c0, v0) == [c \in Idx |-> [v \in Idx |-> c = c0 /\ v = v0]]
OnlyRow(c0) == [c \in Idx |-> [v \in Idx |-> c = c0]]
AllButRow(c0) == [c \in Idx |-> [v \in Idx |-> c # c0]]

(***************************************************************************)
(* C1: in every reachable state the deck is the elementwise minimum of     *)
(* the players' visible states.  Stated as the claim has it; the code      *)
(* does not keep it.                                                       *)
(***************************************************************************)
C1_DeckIsMin ==
    Len(states) > 0 =>
        \A x \in Cells : deck[x[1]][x[2]] = MinOverPlayers(x[1], x[2])

(***************************************************************************)
(* C2: no visible state is below the deck at any cell, and the deck (so    *)
(* every visible state) is never negative.                                 *)
(***************************************************************************)
C2_StatesAboveDeck ==
    \A x \in Cells :
        /\ deck[x[1]][x[2]] >= 0
        /\ \A p \in 1 .. Len(states) : states[p][x[1]][x[2]] >= deck[x[1]][x[2]]

\* a card was dealt and then played by its owner
C2_Witness ==
    /\ score + penalty > 0
    /\ \E p \in 1 .. Len(states), x \in Cells :
          /\ deck[x[1]][x[2]] < INIT_ARRAY[x[1]][x[2]]
          /\ states[p][x[1]][x[2]] = deck[x[1]][x[2]]

(***************************************************************************)
(* C3: a successful deal_card takes exactly one card of the dealt identity *)
(* out of the deck and touches no other cell; deal_card fails, leaving the *)
(* deck alone, when the deck has none of that identity; and while cards    *)
(* are only dealt the deck holds the initial count less the cards in the   *)
(* hands, so that three deals of (0,0) empty that cell.                    *)
(***************************************************************************)
DealEffect(color, value) ==
    /\ result' = "ok" =>
          /\ \A x \in Cells :
                deck'[x[1]][x[2]] =
                   deck[x[1]][x[2]] - (IF x = <<color, value>> THEN 1 ELSE 0)
          /\ MatrixSum(deck') = MatrixSum(deck) - 1
    /\ deck[color][value] = 0 => (result' # "ok" /\ deck' = deck)

C3_DealConservation ==
    /\ [][/\ \A c \in CardColors, v \in CardValues, h \in PlayerIds, g \in BOOLEAN :
               deal_new(c, v, h, g) => DealEffect(c, v)
          /\ \A k \in CardRefs, g \in BOOLEAN :
               deal_again(k, g) => DealEffect(cards[k].color, cards[k].value)]_vars
    /\ [](\A x \in Cells :
             deck[x[1]][x[2]] = INIT_ARRAY[x[1]][x[2]] - InHands(1, x[1], x[2]))

\* three cards (0,0) are in the hands and a fourth deal of (0,0) has failed
C3_Witness ==
    /\ InHands(1, 0, 0) = 3
    /\ deck[0][0] = 0
    /\ deck[0][4] = 1
    /\ result = "ValueError: not part of the deck"

(***************************************************************************)
(* C4: a call that fails leaves the whole shared state as it was.  Stated  *)
(* as the claim has it; play_card sets the played flag before it fails.    *)
(***************************************************************************)
C4_FailureLeavesState ==
    [][result' # "ok" =>
          UNCHANGED <<deck, states, players, cards, stacks, score, penalty>>]_vars

(***************************************************************************)
(* C5: a successful play_card of a card that does not fit its stack adds   *)
(* one to penalty and leaves stacks and score; of a card that fits, adds   *)
(* one to that stack and to score and leaves the other stacks and penalty. *)
(***************************************************************************)
C5_PlayScores ==
    [][\A p \in PlayerIds, k \in CardRefs :
          (result' = "ok" /\ play_card(p, k)) =>
             LET c == cards[k].color
                 v == cards[k].value
             IN  IF stacks[c] # v
                 THEN /\ penalty' = penalty + 1
                      /\ stacks' = stacks
                      /\ score' = score
                 ELSE /\ stacks'[c] = stacks[c] + 1
                      /\ score' = score + 1
                      /\ \A c2 \in Idx \ {c} : stacks'[c2] = stacks[c2]
                      /\ penalty' = penalty]_vars

\* one card went on its stack and another was a misplay
C5_Witness == score >= 1 /\ penalty >= 1 /\ result = "ok"

(***************************************************************************)
(* C6: a successful give_information ands the clue into the mask of every  *)
(* card at a target index, ands the negated clue into the mask of every    *)
(* other card of that hand not yet played, and changes nothing else: not   *)
(* the played cards, not the cards of other hands, not the other fields    *)
(* of a card, not the rest of the game.                                    *)
(***************************************************************************)
AtTarget(hand_cards, t, k) ==
    \E n \in 1 .. Len(t) : hand_cards[t[n] + 1] = k

AtOther(hand_cards, t, k) ==
    \E j \in 1 .. Len(hand_cards) : hand_cards[j] = k /\ ~InList(j - 1, t)

\* the mask with the cells kept where the clue holds (or does not hold)
Narrowed(mask, i, holds) ==
    [c \in Idx |-> [v \in Idx |-> mask[c][v] /\ (Agrees(i, c, v) = holds)]]

\* in this state, give_information(p, t, i) succeeds only with that effect
ClueEffect(p, t, i) ==
    LET hand_cards == players[p + 1].cards IN
    \A r \in {GiveInformationResult(p, t, i)} :
        r.raised = "ok" =>
          /\ Len(r.cards) = Len(cards)
          /\ \A k \in CardRefs :
                /\ r.cards[k] = [cards[k] EXCEPT !.states = r.cards[k].states]
                /\ r.cards[k].states =
                      IF AtTarget(hand_cards, t, k)
                      THEN Narrowed(cards[k].states, i, TRUE)
                      ELSE IF AtOther(hand_cards, t, k) /\ ~cards[k].played
                      THEN Narrowed(cards[k].states, i, FALSE)
                      ELSE cards[k].states

C6_ClueFrame ==
    /\ [](\A p \in PlayerIds, t \in InfoTargets, i \in HandClues :
             p < Len(players) => ClueEffect(p, t, i))
    /\ [][UNCHANGED Others
            \/ ~(\E p \in PlayerIds, t \in InfoTargets, i \in HandClues :
                    give_information(p, t, i))]_vars

\* an affirmed color clue on index 0 of a two-card hand, a card elsewhere
C6_Witness ==
    /\ result = "ok"
    /\ \E p, q \in 1 .. Len(players) :
          /\ p # q
          /\ Len(players[p].cards) = 2
          /\ cards[players[p].cards[1]].states = OnlyRow(0)
          /\ cards[players[p].cards[2]].states = AllButRow(0)
          /\ Len(players[q].cards) = 1
          /\ cards[players[q].cards[1]].states = ONES

(***************************************************************************)
(* C7: no step turns a false cell of a belief mask true.                   *)
(***************************************************************************)
C7_MaskMonotone ==
    [][\A k \in CardRefs, x \in Cells :
          cards'[k].states[x[1]][x[2]] => cards[k].states[x[1]][x[2]]]_vars

\* a card narrowed to one cell by direct clues, another narrowed by a hand clue
C7_Witness ==
    \E k, j \in CardRefs :
        /\ k # j
        /\ cards[k].states = OnlyCell(cards[k].color, cards[k].value)
        /\ cards[j].states # ONES

(***************************************************************************)
(* C8: in every reachable state a truthful clue keeps the mask cell of     *)
(* every card's true identity: a direct clue that is true of the card,     *)
(* and a hand clue whose targets are exactly the cards of the hand the     *)
(* clue is true of.  So no sequence of truthful clues zeroes that cell.    *)
(***************************************************************************)
TruthKept(cs) ==
    \A k \in CardRefs :
        cards[k].states[cards[k].color][cards[k].value] =>
           cs[k].states[cards[k].color][cards[k].value]

ExactTargets(p, t, i) ==
    LET hand_cards == players[p + 1].cards IN
    /\ \A n \in 1 .. Len(t) : t[n] < Len(hand_cards)
    /\ \A j \in 1 .. Len(hand_cards) :
          InList(j - 1, t) <=>
             Agrees(i, cards[hand_cards[j]].color, cards[hand_cards[j]].value)

C8_TruthfulKeepsIdentity ==
    /\ \A k \in CardRefs, i \in Clues :
          Agrees(i, cards[k].color, cards[k].value) =>
             TruthKept([cards EXCEPT ![k].states = CardAddInformation(@, i)])
    /\ \A p \in PlayerIds, t \in InfoTargets, i \in HandClues :
          (p < Len(players) /\ ExactTargets(p, t, i)) =>
             TruthKept(GiveInformationResult(p, t, i).cards)

\* a hand of a color-0 and a color-1 card after the truthful clue "color 0"
C8_Witness ==
    \E p \in 1 .. Len(players) :
        /\ Len(players[p].cards) = 2
        /\ LET a == cards[players[p].cards[1]]
               b == cards[players[p].cards[2]]
           IN  /\ a.color = 0 /\ b.color = 1
               /\ a.states = OnlyRow(0)
               /\ b.states = AllButRow(0)
               /\ b.states[b.color][b.value]

(***************************************************************************)
(* C9: no clue changes the mask of a played card.  Stated as the claim     *)
(* has it; Card.add_information does not look at the played flag.          *)
(***************************************************************************)
C9_PlayedMaskFrozen ==
    [][\A k \in CardRefs :
          cards[k].played =>
             (cards'[k].states = cards[k].states)]_vars

(***************************************************************************)
(* C10: once the three cards of identity (0,0) dealt to one player each    *)
(* hold the affirmed color and the affirmed value clue, each of them is    *)
(* determined and well predicted, and the assertion of determined() holds  *)
(* for each.                                                               *)
(***************************************************************************)
AllClued ==
    /\ Len(cards) >= MAIN_CARDS
    /\ \A k \in 1 .. MAIN_CARDS : cards[k].states = OnlyCell(0, 0)

C10_ThreeDetermined ==
    AllClued =>
        \A k \in 1 .. MAIN_CARDS :
            determined_asserts(k) /\ determined(k) /\ well_predicted(k)

\* the three cards sit in one hand, each recording the earlier ones
C10_Witness ==
    /\ AllClued
    /\ Len(cards[3].cards_in_hand) = 2
    /\ players[cards[1].player_id + 1].cards = <<1, 2, 3>>

(***************************************************************************)
(* C14: a clue can be constructed for color and for value with every index *)
(* 0..4, construction fails exactly for an index outside 0..4 or another   *)
(* attribute, and negate keeps attribute and index, flips the polarity and *)
(* twice gives the clue back.  Stated as the claim has it; the constructor *)
(* refuses index 4.                                                        *)
(***************************************************************************)
C14_ClueConstruction ==
    [][\A t \in ClueTypes, d \in ClueIndexes, n \in BOOLEAN :
          clue_new(1, t, d, n) =>
             /\ (result' = "ok") <=> (d \in Idx /\ t \in {"color", "value"})
             /\ result' = "ok" =>
                   LET i == Information(t, d, n) IN
                   /\ negate(i).type = t /\ negate(i).data = d
                   /\ negate(i).negative = ~n
                   /\ negate(negate(i)) = i]_vars

(***************************************************************************)
(* C13: the sibling snapshot of a card never holds the card itself (so     *)
(* the recursion of probabilities() ends).  Stated as the claim has it;    *)
(* a Card object dealt twice records itself.                               *)
(***************************************************************************)
C13_SiblingsEarlier ==
    \A k \in CardRefs : ~InList(k, cards[k].cards_in_hand)

(***************************************************************************)
(* C16: for every player p and identity, states[p] is the initial count    *)
(* less the cards of that identity in the other players' hands less the    *)
(* cards of that identity that were played.  Stated as the claim has it;   *)
(* a player added after a deal starts from the full counts.                *)
(***************************************************************************)
PlayedCount(c, v) ==
    Cardinality({k \in CardRefs :
                    cards[k].played /\ cards[k].color = c /\ cards[k].value = v})

C16_StatesAccount ==
    \A p \in 1 .. Len(states), x \in Cells :
        states[p][x[1]][x[2]] =
           INIT_ARRAY[x[1]][x[2]]
             - (InHands(1, x[1], x[2]) - CountIn(players[p].cards, 1, x[1], x[2]))
             - PlayedCount(x[1], x[2])

(***************************************************************************)
(* C17: a successful deal_card to owner o takes one from states[p] at the  *)
(* card's cell for every p # o and leaves states[o]; a successful          *)
(* play_card by o takes one from states[o] at the card's cell and leaves   *)
(* the deck and the other players' states; give_information changes        *)
(* neither the deck nor any states[p]; and no other step changes the       *)
(* matrix of a player.                                                     *)
(***************************************************************************)
LessOne(matrix, c, v) == [matrix EXCEPT ![c][v] = @ - 1]

DealStates(o, c, v) ==
    /\ Len(states') = Len(states)
    /\ \A p \in 1 .. Len(states) :
          states'[p] = IF p - 1 # o THEN LessOne(states[p], c, v) ELSE states[p]

PlayStates(o, c, v) ==
    /\ deck' = deck
    /\ Len(states') = Len(states)
    /\ \A p \in 1 .. Len(states) :
          states'[p] = IF p - 1 = o THEN LessOne(states[p], c, v) ELSE states[p]

C17_StatesFrame ==
    [][/\ \A c \in CardColors, v \in CardValues, h \in PlayerIds, g \in SpecStarts :
             (result' = "ok" /\ deal_new(c, v, h, g)) => DealStates(h, c, v)
       /\ \A k \in CardRefs, g \in SpecStarts :
             (result' = "ok" /\ deal_again(k, g)) =>
                DealStates(cards[k].player_id, cards[k].color, cards[k].value)
       /\ \A p \in PlayerIds, k \in CardRefs :
             (result' = "ok" /\ play_card(p, k)) =>
                PlayStates(p, cards[k].color, cards[k].value)
       /\ \/ UNCHANGED <<deck, states>>
          \/ ~(\E p \in PlayerIds, t \in SpecTargets, i \in SpecClues :
                  give_information(p, t, i))
       /\ \/ \A p \in 1 .. Len(states) : states'[p] = states[p]
          \/ /\ result' = "ok"
             /\ \/ \E c \in CardColors, v \in CardValues, h \in PlayerIds,
                       g \in SpecStarts : deal_new(c, v, h, g)
                \/ \E k \in CardRefs, g \in SpecStarts : deal_again(k, g)
                \/ \E p \in PlayerIds, k \in CardRefs : play_card(p, k)]_vars

\* a card (0,4) dealt to one of two players and played by that player
C17_Witness ==
    /\ Len(states) = 2
    /\ deck[0][4] = 0
    /\ states[1][0][4] = 0
    /\ states[2][0][4] = 0
    /\ penalty = 1
    /\ result = "ok"

(***************************************************************************)
(* C19: a dealt card has its played flag set exactly when it is in no      *)
(* hand.  Stated as the claim has it; a play_card by a player who does     *)
(* not hold the card sets the flag and leaves the card in its hand.        *)
(***************************************************************************)
C19_PlayedIffGone ==
    \A k \in CardRefs :
        cards[k].played <=> ~(\E p \in 1 .. Len(players) : InList(k, players[p].cards))

(***************************************************************************)
(* C20: score is the sum of the five stacks, every stack is in 0..5, no    *)
(* stack ever decreases, and score + penalty counts the play_card calls    *)
(* that completed: it is 0 at the start, a completed play_card adds one    *)
(* and no other step changes it.                                           *)
(***************************************************************************)
C20_ScoreAccount ==
    /\ [](/\ score = SumTo(stacks, GRID - 1)
          /\ \A c \in Idx : stacks[c] \in 0 .. GRID)
    /\ [][/\ \A c \in Idx : stacks'[c] >= stacks[c]
          /\ score' + penalty' =
                score + penalty +
                (IF \E p \in PlayerIds, k \in CardRefs :
                       result' = "ok" /\ play_card(p, k)
                 THEN 1 ELSE 0)]_vars

\* the stack of color 0 is complete and the last call, a play, failed
C20_Witness ==
    /\ stacks[0] = GRID
    /\ score = GRID
    /\ penalty = 0
    /\ result = "ValueError: list.remove"

(***************************************************************************)
(* C11: in correct use the distribution of every card still in a hand has  *)
(* a non-zero cell, so the assertion of determined() holds.  Stated as the *)
(* claim has it; siblings dealt in the initial hand each take their share  *)
(* of a cell and can leave nothing of it.                                  *)
(***************************************************************************)
InAHand(k) == \E p \in 1 .. Len(players) : InList(k, players[p].cards)

C11_NeverAllZero ==
    \A k \in CardRefs : InAHand(k) => determined_asserts(k)

(***************************************************************************)
(* C12: well_predicted() is true exactly when determined() is true and the *)
(* one non-zero cell of the distribution is the card's true identity.      *)
(* Stated as the claim has it; the code reads the first true cell of the   *)
(* mask.                                                                   *)
(***************************************************************************)
C12_PredictedByDistribution ==
    \A k \in CardRefs :
        determined_asserts(k) =>
           (well_predicted(k) <=>
              /\ determined(k)
              /\ probabilities(k, None).num[cards[k].color][cards[k].value] # 0)

(***************************************************************************)
(* C15: most_likely does not fail for a card in a hand whose distribution  *)
(* has a non-zero cell.  Stated as the claim has it; the call fails for    *)
(* every card.                                                             *)
(***************************************************************************)
C15_MostLikelyReturns ==
    [][\A k \in CardRefs, r \in BOOLEAN :
          (most_likely(k, r) /\ InAHand(k) /\ determined_asserts(k)) =>
             result' = "ok"]_vars

(***************************************************************************)
(* C18: in correct use the matrix probabilities() computes for a card in a *)
(* hand has no negative cell, and after make_proba the entries sum to the  *)
(* denominator, which is not zero.  Stated as the claim has it; the shares *)
(* of three siblings exceed the one card there is of a cell.               *)
(***************************************************************************)
C18_NonNegativeNormalized ==
    \A k \in CardRefs :
        InAHand(k) =>
           /\ \A m \in {probability_matrix(k, None)} :
                 \A x \in Cells :
                    IF m.den > 0 THEN m.num[x[1]][x[2]] >= 0
                    ELSE m.num[x[1]][x[2]] <= 0
           /\ \A p \in {probabilities(k, None)} :
                 p.den # 0 /\ MatrixSum(p.num) = p.den

====
